---- MODULE Spec2Model ----
(***************************************************************************)
(* Model of src/Pricing_app_tester.py: the Streamlit pricing simulator.    *)
(*                                                                         *)
(* One script run reads the widgets, calls calculate_costs_over_time (the  *)
(* onboarding ramp loop, the three cost columns and their running sums)    *)
(* and derives the summary figures (TCO, compared models, savings          *)
(* annotations, effective price per unit).  st.session_state keeps         *)
(* num_scheduled_periods from one run to the next; the two buttons change  *)
(* it and start a new run.                                                 *)
(*                                                                         *)
(* Abstractions: the unit of measure is fixed, so pp_unit_label is the     *)
(* string "Pay-Per-Unit"; the currency and the charts' layout are left     *)
(* out; the widgets' default values are left out (a widget returns any     *)
(* integer of its range); quotients are kept exact, as the pair            *)
(* <<numerator, denominator>>, never rounded.                              *)
(***************************************************************************)
EXTENDS Integers, Sequences, FiniteSets, TLC

\* ---------------------------------------------------------------- bounds
MaxUnits == 3
MaxMonths == 3
MaxRate == 2
NegRate == 1
MaxPrice == 1
MaxFee == 2

\* ------------------------------------------------------ program constants
InitialPeriods == 3
MaxPeriods == 5
MinPeriods == 1

PP_UNIT == "Pay-Per-Unit"
SCHEDULED == "Scheduled Flat Fee"
SINGLE == "Single Flat Fee"

VARIABLES
    num_scheduled_periods,    \* st.session_state.num_scheduled_periods
    pc,                       \* position of the script run
    total_units, contract_months, units_per_month,
    price_per_unit, single_flat_monthly_fee,
    scheduled_fee_tiers,      \* dict: start month -> fee
    enable_scheduled_fee,
    onboarding_duration,
    monthly_units, current_units,
    cost_df,                  \* column name -> sequence of month values
    models_to_plot,
    tco_pp_unit, tco_scheduled, single_flat_fee_tco,
    tco_savings,              \* savings annotations of the TCO chart
    total_unit_months,
    avg_price,                \* model -> <<numerator, denominator>>
    avg_savings,              \* savings annotations of the per-unit chart
    month, fee                \* get_fee_for_month called on its own

inputs == <<total_units, contract_months, units_per_month, price_per_unit,
            single_flat_monthly_fee, scheduled_fee_tiers, enable_scheduled_fee>>
ramp == <<onboarding_duration, monthly_units, current_units>>
summary == <<models_to_plot, tco_pp_unit, tco_scheduled, single_flat_fee_tco,
             tco_savings, total_unit_months, avg_price, avg_savings>>
resolver == <<month, fee>>
vars == <<num_scheduled_periods, pc, inputs, ramp, cost_df, summary, resolver>>

\* ---------------------------------------------------------------- helpers
Min(a, b) == IF a <= b THEN a ELSE b

Max(S) == CHOOSE x \in S : \A y \in S : y <= x

RECURSIVE SeqSum(_)
SeqSum(s) == IF s = <<>> THEN 0 ELSE s[1] + SeqSum(Tail(s))

NoTiers == <<>>

Columns == {"Month", "Onboarded Units", PP_UNIT, SCHEDULED, SINGLE,
            "Cumulative Pay-Per-Unit", "Cumulative Scheduled Flat Fee",
            "Cumulative Single Flat Fee"}

NoTable == [c \in Columns |-> <<>>]

Models == {PP_UNIT, SCHEDULED, SINGLE}

NoPrices == [m \in Models |-> <<0, 1>>]

\* ------------------------------------------------------ get_fee_for_month
\* sorted(tiers_dict.items(), reverse=True): the keys of a dict are distinct,
\* so the items come out by descending start month.
RECURSIVE sorted_reverse(_)
sorted_reverse(tiers) ==
    IF DOMAIN tiers = {} THEN <<>>
    ELSE LET k == Max(DOMAIN tiers)
             rest == [j \in DOMAIN tiers \ {k} |-> tiers[j]]
         IN  <<(<<k, tiers[k]>>)>> \o sorted_reverse(rest)

\* The for loop with its break: the first item it can take decides.
RECURSIVE fee_scan(_, _)
fee_scan(m, items) ==
    IF items = <<>> THEN 0
    ELSE IF m >= items[1][1] THEN items[1][2]
    ELSE fee_scan(m, Tail(items))

RECURSIVE sorted_forward(_)
sorted_forward(tiers) ==
    IF DOMAIN tiers = {} THEN <<>>
    ELSE LET k == Max(DOMAIN tiers)
             rest == [j \in DOMAIN tiers \ {k} |-> tiers[j]]
         IN  sorted_forward(rest) \o <<(<<k, tiers[k]>>)>>

\* Mutant: the items taken in ascending order (reverse=True forgotten).
get_fee_for_month_ascending(m, tiers_dict) == fee_scan(m, sorted_forward(tiers_dict))

get_fee_for_month(m, tiers_dict) == fee_scan(m, sorted_reverse(tiers_dict))

\* ----------------------------------------------- calculate_costs_over_time
\* math.ceil(total_units / units_per_month), for units_per_month > 0.
Ceil(a, b) == IF a % b = 0 THEN a \div b ELSE (a \div b) + 1

\* Mutant: the quotient rounded down.
duration_of_floor(total, rate) == IF rate > 0 THEN total \div rate ELSE 0

duration_of(total, rate) == IF rate > 0 THEN Ceil(total, rate) ELSE 0

\* Mutant: the increment is not clamped to what remains.
ramp_next_unclamped(current, total, rate) ==
    IF current < total THEN current + rate ELSE current

\* Mutant: the increment is clamped to the total, not to what remains.
ramp_next_total(current, total, rate) ==
    IF current < total THEN current + Min(rate, total) ELSE current

\* One pass of the loop body: the new current_units.
ramp_next(current, total, rate) ==
    IF current < total
    THEN LET remaining_to_onboard == total - current
             units_to_add == Min(rate, remaining_to_onboard)
         IN  current + units_to_add
    ELSE current

\* Mutant: the enable flag is not looked at.
costs_scheduled_flat_always(enable, tiers, months) ==
    [m \in 1..months |-> get_fee_for_month(m, tiers)]

costs_scheduled_flat(enable, tiers, months) ==
    IF enable THEN [m \in 1..months |-> get_fee_for_month(m, tiers)]
    ELSE [m \in 1..months |-> 0]

\* Mutant: an exclusive running sum (each month misses its own cost).
cumsum_exclusive(s) == [m \in 1..Len(s) |-> SeqSum(SubSeq(s, 1, m - 1))]

\* pandas' Series.cumsum.
cumsum(s) == [m \in 1..Len(s) |-> SeqSum(SubSeq(s, 1, m))]

build_df(units, months, price, flat, tiers, enable) ==
    LET costs_pp_unit == [m \in 1..Len(units) |-> price * units[m]]
        costs_single_flat == [m \in 1..months |-> flat]
        costs_scheduled == costs_scheduled_flat(enable, tiers, months)
    IN  [c \in Columns |->
            CASE c = "Month" -> [m \in 1..months |-> m]
              [] c = "Onboarded Units" -> units
              [] c = PP_UNIT -> costs_pp_unit
              [] c = SCHEDULED -> costs_scheduled
              [] c = SINGLE -> costs_single_flat
              [] c = "Cumulative Pay-Per-Unit" -> cumsum(costs_pp_unit)
              [] c = "Cumulative Scheduled Flat Fee" -> cumsum(costs_scheduled)
              [] c = "Cumulative Single Flat Fee" -> cumsum(costs_single_flat)]

\* ------------------------------------------------------------ the summary
plotted(enable) == {PP_UNIT, SINGLE} \cup (IF enable THEN {SCHEDULED} ELSE {})

\* Mutant: the cheaper model's TCO is not required to be positive.
saving_any(model, versus, a, b) ==
    IF b > a
    THEN {[model |-> model, versus |-> versus, num |-> b - a, den |-> b]}
    ELSE {}

\* `if b > a > 0: saving = ((b - a) / b) * 100`, then the annotation.
saving(model, versus, a, b) ==
    IF b > a /\ a > 0
    THEN {[model |-> model, versus |-> versus, num |-> b - a, den |-> b]}
    ELSE {}

tco_annotations(enable, pp, scheduled, single) ==
    IF enable
    THEN saving(SCHEDULED, PP_UNIT, scheduled, pp)
         \cup saving(SINGLE, SCHEDULED, single, scheduled)
         \cup saving(SINGLE, PP_UNIT, single, pp)
    ELSE saving(SINGLE, PP_UNIT, single, pp)

\* Mutant: the per-unit price is divided by the unit-months once more.
effective_prices_divided(enable, price, scheduled, single, unit_months) ==
    IF unit_months > 0
    THEN (PP_UNIT :> <<price, unit_months>>)
         @@ (SCHEDULED :> (IF enable THEN <<scheduled, unit_months>> ELSE <<0, 1>>))
         @@ (SINGLE :> <<single, unit_months>>)
    ELSE (PP_UNIT :> <<price, 1>>) @@ (SCHEDULED :> <<0, 1>>) @@ (SINGLE :> <<0, 1>>)

\* avg_price_pp_unit, avg_price_scheduled, avg_price_single_flat.
effective_prices(enable, price, scheduled, single, unit_months) ==
    IF unit_months > 0
    THEN (PP_UNIT :> <<price, 1>>)
         @@ (SCHEDULED :> (IF enable THEN <<scheduled, unit_months>> ELSE <<0, 1>>))
         @@ (SINGLE :> <<single, unit_months>>)
    ELSE (PP_UNIT :> <<price, 1>>) @@ (SCHEDULED :> <<0, 1>>) @@ (SINGLE :> <<0, 1>>)

\* `if b > a > 0` on two quotients of positive denominator, and the saving.
avg_saving(model, versus, a, b) ==
    IF b[1] * a[2] > a[1] * b[2] /\ a[1] > 0
    THEN {[model |-> model, versus |-> versus,
           num |-> b[1] * a[2] - a[1] * b[2], den |-> b[1] * a[2]]}
    ELSE {}

avg_annotations(enable, prices) ==
    IF enable
    THEN avg_saving(SCHEDULED, PP_UNIT, prices[SCHEDULED], prices[PP_UNIT])
         \cup avg_saving(SINGLE, SCHEDULED, prices[SINGLE], prices[SCHEDULED])
         \cup avg_saving(SINGLE, PP_UNIT, prices[SINGLE], prices[PP_UNIT])
    ELSE avg_saving(SINGLE, PP_UNIT, prices[SINGLE], prices[PP_UNIT])

\* ------------------------------------------------------------ the widgets
TierFees == (-1)..MaxFee

\* The loop over the periods: period 1 starts at month 1, each later period
\* is a number_input of range last_month + 1 .. contract_months.  The set of
\* dicts the loop can build; empty when some range is empty (the widget
\* raises and the run ends there).
RECURSIVE period_inputs(_, _, _, _, _)
period_inputs(i, n, last_month, months, tiers) ==
    IF i = n THEN {tiers}
    ELSE IF i = 0
    THEN UNION {period_inputs(1, n, 1, months, 1 :> f) : f \in TierFees}
    ELSE UNION {period_inputs(i + 1, n, start_month, months,
                              (start_month :> f) @@ tiers) :
                   start_month \in (last_month + 1)..months, f \in TierFees}

\* Mutant: the guard lets a sixth period in.
add_scheduled_period_six(n) == IF n <= MaxPeriods THEN n + 1 ELSE n

add_scheduled_period(n) == IF n < MaxPeriods THEN n + 1 ELSE n

remove_scheduled_period(n) == IF n > MinPeriods THEN n - 1 ELSE n

\* Any dict of tiers within the months of the model.
AnyTiers == UNION {[S -> TierFees] : S \in SUBSET (1..MaxMonths)}

\* The dicts a direct call is given: any start months, fees from 1 up.
CallTiers == UNION {[S -> 1..MaxFee] : S \in SUBSET (1..MaxMonths)}

\* ------------------------------------------------------------------- Init
Fresh ==
    /\ total_units = 0 /\ contract_months = 0 /\ units_per_month = 0
    /\ price_per_unit = 0 /\ single_flat_monthly_fee = 0
    /\ enable_scheduled_fee = FALSE
    /\ onboarding_duration = 0 /\ monthly_units = <<>> /\ current_units = 0
    /\ cost_df = NoTable
    /\ models_to_plot = {}
    /\ tco_pp_unit = 0 /\ tco_scheduled = 0 /\ single_flat_fee_tco = 0
    /\ tco_savings = {} /\ total_unit_months = 0
    /\ avg_price = NoPrices /\ avg_savings = {}

Init ==
    /\ num_scheduled_periods = InitialPeriods
    /\ pc = "idle"
    /\ Fresh
    /\ scheduled_fee_tiers = NoTiers
    /\ month = 0 /\ fee = 0

\* ---------------------------------------------------------------- actions
\* The call's entry: the arguments bound, the duration computed, the loop
\* about to start.
Enter(total, months, rate, price, flat, tiers, enable) ==
    /\ total_units' = total /\ contract_months' = months
    /\ units_per_month' = rate /\ price_per_unit' = price
    /\ single_flat_monthly_fee' = flat
    /\ scheduled_fee_tiers' = tiers /\ enable_scheduled_fee' = enable
    /\ onboarding_duration' = duration_of(total, rate)
    /\ monthly_units' = <<>> /\ current_units' = 0
    /\ pc' = "ramp"
    /\ UNCHANGED <<num_scheduled_periods, cost_df, summary, resolver>>

\* A script run up to the call: the widgets enforce their ranges.
RunScript ==
    /\ pc = "idle"
    /\ \E total \in 1..MaxUnits, months \in 1..MaxMonths, rate \in 1..MaxRate,
          price \in 0..MaxPrice, enable \in BOOLEAN :
         LET built == IF enable
                      THEN period_inputs(0, num_scheduled_periods, 1, months, NoTiers)
                      ELSE {NoTiers}
         IN  \/ \E tiers \in built, flat \in 0..MaxFee :
                   Enter(total, months, rate, price, flat, tiers, enable)
             \/ /\ built = {}
                /\ total_units' = total /\ contract_months' = months
                /\ units_per_month' = rate /\ price_per_unit' = price
                /\ enable_scheduled_fee' = enable
                /\ pc' = "error"
                /\ UNCHANGED <<num_scheduled_periods, single_flat_monthly_fee,
                               scheduled_fee_tiers, ramp, cost_df, summary, resolver>>

\* calculate_costs_over_time called with arguments no widget has checked.
CallCore ==
    /\ pc = "idle"
    /\ \E total \in 1..MaxUnits, months \in 1..MaxMonths,
          rate \in (-NegRate)..MaxRate, price \in 0..MaxPrice,
          flat \in 0..MaxFee, tiers \in CallTiers, enable \in BOOLEAN :
         Enter(total, months, rate, price, flat, tiers, enable)

\* One iteration of `for month in range(1, contract_months + 1)`.
RampStep ==
    /\ pc = "ramp"
    /\ Len(monthly_units) < contract_months
    /\ current_units' = ramp_next(current_units, total_units, units_per_month)
    /\ monthly_units' = Append(monthly_units, current_units')
    /\ UNCHANGED <<num_scheduled_periods, pc, inputs, onboarding_duration,
                   cost_df, summary, resolver>>

\* The cost columns, the table and its running sums; the call returns.
BuildTable ==
    /\ pc = "ramp"
    /\ Len(monthly_units) = contract_months
    /\ cost_df' = build_df(monthly_units, contract_months, price_per_unit,
                           single_flat_monthly_fee, scheduled_fee_tiers,
                           enable_scheduled_fee)
    /\ pc' = "summary"
    /\ UNCHANGED <<num_scheduled_periods, inputs, ramp, summary, resolver>>

\* The rest of the script: what is compared, the TCOs, the annotations of the
\* TCO chart, the effective prices and the annotations of their chart.
Summarise ==
    /\ pc = "summary"
    /\ models_to_plot' = plotted(enable_scheduled_fee)
    /\ tco_pp_unit' = SeqSum(cost_df[PP_UNIT])
    /\ tco_scheduled' = SeqSum(cost_df[SCHEDULED])
    /\ single_flat_fee_tco' = single_flat_monthly_fee * contract_months
    /\ tco_savings' = tco_annotations(enable_scheduled_fee, tco_pp_unit',
                                      tco_scheduled', single_flat_fee_tco')
    /\ total_unit_months' = SeqSum(cost_df["Onboarded Units"])
    /\ avg_price' = effective_prices(enable_scheduled_fee, price_per_unit,
                                     tco_scheduled', single_flat_fee_tco',
                                     total_unit_months')
    /\ avg_savings' = avg_annotations(enable_scheduled_fee, avg_price')
    /\ pc' = "rendered"
    /\ UNCHANGED <<num_scheduled_periods, inputs, ramp, cost_df, resolver>>

\* A new run starts from the session state alone.
Restart ==
    /\ pc' = "idle"
    /\ total_units' = 0 /\ contract_months' = 0 /\ units_per_month' = 0
    /\ price_per_unit' = 0 /\ single_flat_monthly_fee' = 0
    /\ scheduled_fee_tiers' = NoTiers /\ enable_scheduled_fee' = FALSE
    /\ onboarding_duration' = 0 /\ monthly_units' = <<>> /\ current_units' = 0
    /\ cost_df' = NoTable
    /\ models_to_plot' = {}
    /\ tco_pp_unit' = 0 /\ tco_scheduled' = 0 /\ single_flat_fee_tco' = 0
    /\ tco_savings' = {} /\ total_unit_months' = 0
    /\ avg_price' = NoPrices /\ avg_savings' = {}
    /\ UNCHANGED resolver

\* The buttons exist once the toggle is on; they are drawn before the period
\* widgets, so a run that ended at a widget shows them too.
AddPeriod ==
    /\ pc \in {"rendered", "error"}
    /\ enable_scheduled_fee
    /\ num_scheduled_periods' = add_scheduled_period(num_scheduled_periods)
    /\ Restart

RemovePeriod ==
    /\ pc \in {"rendered", "error"}
    /\ enable_scheduled_fee
    /\ num_scheduled_periods' = remove_scheduled_period(num_scheduled_periods)
    /\ Restart

\* Any other widget changed.
Rerun ==
    /\ pc \in {"rendered", "error"}
    /\ UNCHANGED num_scheduled_periods
    /\ Restart

Next == RunScript \/ RampStep \/ BuildTable \/ Summarise
        \/ AddPeriod \/ RemovePeriod \/ Rerun

Spec == Init /\ [][Next]_vars

NextCore == CallCore \/ RampStep \/ BuildTable \/ Summarise \/ Rerun

SpecCore == Init /\ [][NextCore]_vars

\* get_fee_for_month on its own: any dict, any month from 0 to past the last.
InitFee ==
    /\ num_scheduled_periods = InitialPeriods
    /\ pc = "fee"
    /\ Fresh
    /\ scheduled_fee_tiers \in AnyTiers
    /\ month \in 0..(MaxMonths + 1)
    /\ fee = 0

ResolveFee ==
    /\ pc = "fee"
    /\ fee' = get_fee_for_month(month, scheduled_fee_tiers)
    /\ pc' = "fee_done"
    /\ UNCHANGED <<num_scheduled_periods, inputs, ramp, cost_df, summary, month>>

NextFee == ResolveFee

SpecFee == InitFee /\ [][NextFee]_vars
\* ================================================================ claims
\* calculate_costs_over_time has returned its table.
Returned == pc \in {"summary", "rendered"}

onboardingSeries == cost_df["Onboarded Units"]

Tco(model) ==
    CASE model = PP_UNIT -> tco_pp_unit
      [] model = SCHEDULED -> tco_scheduled
      [] model = SINGLE -> single_flat_fee_tco

\* C1: with positive inputs the series' last entry, that of month
\* contract_months, is min(total_units, units_per_month * contract_months),
\* and a contract shorter than the onboarding duration never reaches
\* total_units.
C1_Saturation ==
    Returned =>
        /\ onboardingSeries[contract_months]
              = Min(total_units, units_per_month * contract_months)
        /\ contract_months < onboarding_duration =>
              \A m \in 1..contract_months : onboardingSeries[m] < total_units

\* The last increment was clamped: the rate does not divide the total.
C1_Witness ==
    /\ Returned
    /\ units_per_month * contract_months > total_units
    /\ total_units % units_per_month # 0
    /\ onboardingSeries[contract_months] = total_units

\* C2: after every iteration of the ramp loop the series is non-decreasing and
\* no entry exceeds total_units, and the returned series has exactly
\* contract_months entries.
C2_Monotone ==
    /\ Len(monthly_units) <= contract_months
    /\ \A m \in 1..Len(monthly_units) :
          /\ monthly_units[m] <= total_units
          /\ m > 1 => monthly_units[m - 1] <= monthly_units[m]
    /\ Returned =>
          /\ onboardingSeries = monthly_units
          /\ Len(onboardingSeries) = contract_months

\* Inside the loop, after an iteration whose increment was clamped.
C2_Witness ==
    /\ pc = "ramp"
    /\ Len(monthly_units) = 2
    /\ Len(monthly_units) < contract_months
    /\ monthly_units[1] < monthly_units[2]
    /\ monthly_units[2] - monthly_units[1] < units_per_month
    /\ monthly_units[2] = total_units

\* C3: get_fee_for_month returns the fee of the tier with the largest start
\* month <= month, and 0 when no tier has started (or there is none); so from
\* one month to the next the fee changes only at a tier's start month.
C3_TierResolution ==
    pc = "fee_done" =>
        /\ LET started == {k \in DOMAIN scheduled_fee_tiers : k <= month}
           IN  fee = IF started = {} THEN 0
                     ELSE scheduled_fee_tiers[Max(started)]
        /\ \A m \in 1..(MaxMonths + 1) :
              get_fee_for_month(m, scheduled_fee_tiers)
                 # get_fee_for_month(m - 1, scheduled_fee_tiers)
              => m \in DOMAIN scheduled_fee_tiers

\* Two tiers of different fees have started and the later one is taken.
C3_Witness ==
    /\ pc = "fee_done"
    /\ \E k1, k2 \in DOMAIN scheduled_fee_tiers :
          /\ k1 < k2 /\ k2 <= month
          /\ \A k \in DOMAIN scheduled_fee_tiers : k <= k2
          /\ scheduled_fee_tiers[k1] # scheduled_fee_tiers[k2]
          /\ fee = scheduled_fee_tiers[k2]

\* C4: with positive inputs the returned duration is ceil(total_units /
\* units_per_month), and when the contract is at least that long the first
\* month whose entry is total_units is the duration, every later entry
\* being total_units too.
C4_Duration ==
    Returned =>
        /\ onboarding_duration * units_per_month >= total_units
        /\ (onboarding_duration - 1) * units_per_month < total_units
        /\ contract_months >= onboarding_duration =>
              /\ onboarding_duration \in 1..contract_months
              /\ \A m \in 1..contract_months :
                    (onboardingSeries[m] = total_units) <=> (m >= onboarding_duration)

\* The rate does not divide the total and the plateau is reached.
C4_Witness ==
    /\ Returned
    /\ total_units % units_per_month # 0
    /\ onboarding_duration > 1
    /\ contract_months > onboarding_duration
    /\ onboardingSeries[onboarding_duration] = total_units

CumulativeOf(c, cum) ==
    /\ Len(cost_df[c]) = contract_months
    /\ Len(cost_df[cum]) = contract_months
    /\ cost_df[cum][1] = cost_df[c][1]
    /\ \A m \in 2..contract_months :
          cost_df[cum][m] = cost_df[cum][m - 1] + cost_df[c][m]

\* C5: in the returned table each model's cumulative column starts at the
\* first month's cost and grows by each later month's cost; the per-unit
\* cost of a month is price_per_unit times its onboarded units and the
\* single flat fee's is the configured fee.
C5_Cumulative ==
    Returned =>
        /\ CumulativeOf(PP_UNIT, "Cumulative Pay-Per-Unit")
        /\ CumulativeOf(SCHEDULED, "Cumulative Scheduled Flat Fee")
        /\ CumulativeOf(SINGLE, "Cumulative Single Flat Fee")
        /\ \A m \in 1..contract_months :
              /\ cost_df[PP_UNIT][m] = price_per_unit * onboardingSeries[m]
              /\ cost_df[SINGLE][m] = single_flat_monthly_fee

\* Three months of costs that differ, every model charging something.
C5_Witness ==
    /\ Returned
    /\ contract_months >= 3
    /\ enable_scheduled_fee
    /\ cost_df[PP_UNIT][1] > 0
    /\ cost_df[PP_UNIT][2] > cost_df[PP_UNIT][1]
    /\ cost_df[SCHEDULED][2] # cost_df[SCHEDULED][1]
    /\ cost_df[SCHEDULED][1] > 0
    /\ cost_df[SINGLE][1] > 0
    /\ cost_df["Cumulative Scheduled Flat Fee"][3] > cost_df[SCHEDULED][3]

\* C6: with the scheduled model disabled its cost column is 0 in every month
\* whatever tiers were passed, it is not among the compared models, and the
\* only saving evaluated is the single flat fee's against the per-unit model.
C6_Disabled ==
    ~enable_scheduled_fee =>
        /\ Returned =>
              /\ Len(cost_df[SCHEDULED]) = contract_months
              /\ \A m \in 1..contract_months : cost_df[SCHEDULED][m] = 0
        /\ pc = "rendered" =>
              /\ models_to_plot = {PP_UNIT, SINGLE}
              /\ \A s \in tco_savings \cup avg_savings :
                    s.model = SINGLE /\ s.versus = PP_UNIT

\* Disabled, tiers passed all the same, and the one comparison made.
C6_Witness ==
    /\ pc = "rendered"
    /\ ~enable_scheduled_fee
    /\ \E k \in DOMAIN scheduled_fee_tiers : scheduled_fee_tiers[k] > 0
    /\ tco_savings # {}
    /\ avg_savings # {}

ComparedPairs == {<<SCHEDULED, PP_UNIT>>, <<SINGLE, SCHEDULED>>, <<SINGLE, PP_UNIT>>}

\* C8: a saving of model A against model B on the TCO chart is emitted only
\* when TCO_B > TCO_A > 0, its value is (TCO_B - TCO_A) / TCO_B * 100, and so
\* lies strictly between 0 and 100; the pairs are the three compared ones.
C8_Savings ==
    pc = "rendered" =>
        \A s \in tco_savings :
            /\ <<s.model, s.versus>> \in ComparedPairs
            /\ Tco(s.versus) > Tco(s.model)
            /\ Tco(s.model) > 0
            /\ s.num = Tco(s.versus) - Tco(s.model)
            /\ s.den = Tco(s.versus)
            /\ s.num * 100 > 0
            /\ s.num * 100 < 100 * s.den

\* All three pairs emit a saving.
C8_Witness ==
    /\ pc = "rendered"
    /\ enable_scheduled_fee
    /\ {<<s.model, s.versus>> : s \in tco_savings} = ComparedPairs

\* C9 as stated: called with units_per_month <= 0 the duration is 0 and the
\* series is 0 in every month 1..contract_months.
C9_Claim ==
    (Returned /\ units_per_month <= 0) =>
        /\ onboarding_duration = 0
        /\ Len(onboardingSeries) = contract_months
        /\ \A m \in 1..contract_months : onboardingSeries[m] = 0

\* C10: the number of periods starts at 3 and stays within 1..5; Add Period
\* adds one only below 5, Remove Last Period takes one off only above 1, and
\* nothing else changes it.
C10_Periods ==
    /\ num_scheduled_periods = 3
    /\ [](num_scheduled_periods \in 1..5)
    /\ [][/\ AddPeriod =>
                num_scheduled_periods'
                   = IF num_scheduled_periods < 5
                     THEN num_scheduled_periods + 1 ELSE num_scheduled_periods
          /\ RemovePeriod =>
                num_scheduled_periods'
                   = IF num_scheduled_periods > 1
                     THEN num_scheduled_periods - 1 ELSE num_scheduled_periods
          /\ ~(AddPeriod \/ RemovePeriod) =>
                num_scheduled_periods' = num_scheduled_periods]_vars

\* Five periods, reached by Add Period alone.
C10_Witness == num_scheduled_periods = 5 /\ pc = "idle"
====
